---- MODULE Spec2Model ----
(***************************************************************************)
(* Model of curate.py, the Harvard College Observatory announcements       *)
(* curation module: metadata builders over inventory tables and the        *)
(* Dataverse API calls (create, upload, delete, publish, unlock).          *)
(*                                                                         *)
(* Python values are modelled as follows.                                  *)
(*   str        a sequence of tokens (a token is a TLA+ string; literal    *)
(*              text of a format string is one token); '' is << >>         *)
(*   table cell [isstr, s]: a str cell, or a float nan (a blank cell)      *)
(*   dict       a function from keys to values; {} is the empty function   *)
(*   DataFrame  [columns, rows], rows a sequence of functions on columns   *)
(*   a call's outcome is Return(type, value) or Raise(exception, arg)      *)
(***************************************************************************)
EXTENDS Integers, Sequences, FiniteSets, TLC

VARIABLES
    pc,          \* "idle", a loop position of the running call, or "done"
    fn,          \* the function being called
    args,        \* its arguments
    ret,         \* its outcome once pc = "done"
    datasets,    \* local `datasets`: the pids built from the collection listing
    i,           \* number of items the current loop has processed
    locked_pids, \* local `locked_pids` of unlock_datasets
    errors,      \* local `errors` of publish_datasets / unlock_datasets
    requests     \* the HTTP requests and uploads issued by the call, in order

vars == <<pc, fn, args, ret, datasets, i, locked_pids, errors, requests>>

---------------------------------------------------------------------------
(* Bounds of the model *)

\* rows of an inventory table
MaxRows == 2
\* columns that may be absent from an inventory table
MaxMissing == 1
\* datasets in a collection listing
MaxDatasets == 2

---------------------------------------------------------------------------
(* Python values *)

EmptyDict == [k \in {} |-> 0]
None == [none |-> TRUE]

Return(type, value) == [kind |-> "return", type |-> type, value |-> value]
Raise(exc, arg) == [kind |-> "raise", exc |-> exc, arg |-> arg]
NoRet == [kind |-> "none"]

Str(s) == [isstr |-> TRUE, s |-> s]
NaN == [isstr |-> FALSE, s |-> <<"nan">>]

\* isinstance(v, str) of a table cell
isinstance_str(v) == v.isstr
\* pd.notna(v) of a table cell
notna(v) == v.isstr
\* f'{v}' and str(v) of a table cell: a float nan renders as 'nan'
format(v) == v.s

\* s.split(sep): the pieces of s between the occurrences of sep
RECURSIVE split(_, _)
split(s, sep) ==
    LET hits == {n \in 1..Len(s) : s[n] = sep}
    IN  IF hits = {}
        THEN <<s>>
        ELSE LET n == CHOOSE m \in hits : \A h \in hits : m <= h
             IN  <<SubSeq(s, 1, n - 1)>> \o split(SubSeq(s, n + 1, Len(s)), sep)

\* df.empty: no rows or no columns
empty(df) == Len(df.rows) = 0 \/ df.columns = {}

EmptyDataFrame == [columns |-> {}, rows |-> << >>]

\* all sequences over S of length at most n
SeqUpTo(S, n) == UNION {[1..m -> S] : m \in 0..n}

\* the column sets of a table over `all` that lack at most MaxMissing columns
ColumnSets(all) ==
    {all \ miss : miss \in {m \in SUBSET all : Cardinality(m) <= MaxMissing}}

---------------------------------------------------------------------------
(* create_dataset_metadata *)

required_fields ==
    <<"series_name", "volume_title", "contributor", "subjects",
      "card_date_year", "url">>

\* the columns create_dataset_metadata reads, in the order it reads them
accessed_fields ==
    <<"series_name", "volume_title", "card_number", "contributor",
      "all_observations", "card_date_year", "card_date_month",
      "card_date_day", "subjects", "topic_class", "all_observations", "url">>

SeriesColumns == {accessed_fields[n] : n \in 1..Len(accessed_fields)}

\* the rows a series inventory is drawn from: row "a" has two subjects, a
\* blank topic_class and one observed object; row "b" has a blank subjects
\* cell, two topic classes and two observed objects
RowKinds == {"a", "b"}

\* the cell of column col in a series-inventory row of kind k
SeriesCell(k, col) ==
    CASE col = "subjects" ->
            IF k = "a" THEN Str(<<"subject1", ";", "subject2">>) ELSE NaN
      [] col = "topic_class" ->
            IF k = "a" THEN NaN ELSE Str(<<"topic1", ";", "topic2">>)
      [] col = "all_observations" ->
            IF k = "a" THEN Str(<<"object1">>) ELSE Str(<<"object1", ";", "object2">>)
      [] OTHER -> Str(<<col, k>>)

SeriesRow(k, cols) == [c \in cols |-> SeriesCell(k, c)]

SeriesInventory(cols, kinds) ==
    [columns |-> cols,
     rows |-> [n \in 1..Len(kinds) |-> SeriesRow(kinds[n], cols)]]

SeriesInventories ==
    {SeriesInventory(cols, kinds) :
        cols \in ColumnSets(SeriesColumns),
        kinds \in SeqUpTo(RowKinds, MaxRows)}

ArgStrings == {<< >>, <<"x">>}
SeriesNames == {<< >>, <<"A">>, <<"B">>}

keyword_dict(kw) ==
    [keywordValue |-> kw, keywordVocabulary |-> <<"LCSH">>,
     keywordVocabularyURI |-> <<"https://www.loc.gov/aba/cataloging/subject/">>]

topic_dict(top) == [topicClassValue |-> top]

\* the dataset_metadata dictionary built from row `index` of the inventory
dataset_metadata_of(author, affiliation, contact, email, series_inventory, index) ==
    LET row == series_inventory.rows[index]
        dataset_title == row["series_name"]
        card_number == row["card_number"]
        contributor == row["contributor"]
        all_observations == row["all_observations"]
        collection_date ==
            format(row["card_date_year"]) \o <<"-">>
            \o format(row["card_date_month"]) \o <<"-">>
            \o format(row["card_date_day"])
        keyword_str == row["subjects"]
        keywords ==
            IF isinstance_str(keyword_str) THEN split(keyword_str.s, ";") ELSE << >>
        kws == [n \in 1..Len(keywords) |-> keyword_dict(keywords[n])]
        topic_class_str == row["topic_class"]
        topics ==
            IF isinstance_str(topic_class_str)
            THEN split(topic_class_str.s, ";") ELSE << >>
        tps == [n \in 1..Len(topics) |-> topic_dict(topics[n])]
        objects_str == row["all_observations"]
        obs ==
            IF isinstance_str(objects_str) THEN split(objects_str.s, ";") ELSE << >>
        description ==
            format(dataset_title)
            \o <<" is a series of tables and text files associated with HCO Announcement Card number: ">>
            \o format(card_number) \o <<". Compiled by: ">> \o format(contributor)
            \o <<". Objects observed include ">> \o format(all_observations) \o <<".">>
    IN  [title |-> dataset_title,
         author |-> <<[authorName |-> author, authorAffiliation |-> affiliation]>>,
         description |-> <<[dsDescriptionValue |-> description]>>,
         contact |-> <<[datasetContactName |-> contact,
                        datasetContactAffiliation |-> affiliation,
                        datasetContactEmail |-> email]>>,
         subject |-> <<(<<"Astronomy and Astrophysics">>)>>,
         license |-> <<"CC0 1.0">>,
         keywords |-> kws,
         topic_classification |-> tps,
         data_source |-> <<row["url"]>>,
         creation_date |-> collection_date,
         astroObject |-> obs,
         astroFacility |-> <<(<<"Harvard Bureau of Astronomical Telegrams">>)>>,
         astroType |-> <<"Observation">>]

\* the parameter validation of create_dataset_metadata
dataset_metadata_params_invalid(author, affiliation, contact, email, series_name, series_inventory) ==
    \/ author = << >>
    \/ affiliation = << >>
    \/ contact = << >>
    \/ email = << >>
    \/ series_name = << >>
    \/ empty(series_inventory)

\* the required-field check with 'url' left out of required_fields
dataset_required_missing_no_url(series_inventory) ==
    \E n \in 1..(Len(required_fields) - 1) :
        required_fields[n] \notin series_inventory.columns

\* the required-field check of create_dataset_metadata
dataset_required_missing(series_inventory) ==
    \E n \in 1..Len(required_fields) :
        required_fields[n] \notin series_inventory.columns

\* the index of the last file in the inventory: index.values[-1]
last_index(series_inventory) == Len(series_inventory.rows)

\* the index of the first file in the inventory
first_index(series_inventory) == 1

create_dataset_metadata(author, affiliation, contact, email, series_name, series_inventory) ==
    IF dataset_metadata_params_invalid(author, affiliation, contact, email,
                                       series_name, series_inventory)
    THEN Return("dict", EmptyDict)
    ELSE IF dataset_required_missing(series_inventory)
    THEN Return("dict", EmptyDict)
    ELSE LET absent == {n \in 1..Len(accessed_fields) :
                            accessed_fields[n] \notin series_inventory.columns}
         IN  IF absent # {}
             THEN \* series_inventory.at[index, column] of an absent column
                  Raise("KeyError",
                        accessed_fields[CHOOSE n \in absent : \A m \in absent : n <= m])
             ELSE Return("dict",
                         dataset_metadata_of(author, affiliation, contact, email,
                                             series_inventory,
                                             first_index(series_inventory)))

---------------------------------------------------------------------------
(* create_datafile_metadata *)

datafile_required_fields == {"filename", "file_type", "series_name", "observation"}

FileTypes == {"csv", "txt", "xml", "jpg", "pdf"}
\* the rows a file inventory is drawn from: a file type and an observation cell
FileKinds ==
    {<<ft, Str(<<"object1", ";", "object2">>)>> : ft \in FileTypes}
    \cup {<<"txt", NaN>>}

\* a file-inventory row: a file of type ft whose observation cell is ob
FileRow(ft, ob, cols) ==
    [c \in cols |->
        CASE c = "filename" -> <<"file", ".", ft>>
          [] c = "file_type" -> <<ft>>
          [] c = "series_name" -> <<"series", ft>>
          [] c = "observation" -> ob]

FileInventories ==
    {[columns |-> cols,
      rows |-> [n \in 1..Len(kinds) |-> FileRow(kinds[n][1], kinds[n][2], cols)]] :
        cols \in ColumnSets(datafile_required_fields),
        kinds \in SeqUpTo(FileKinds, MaxRows)}

Templates(t) == {<< >>, <<t>>}

\* the mimetype chain without its csv branch
mimetype_of_no_csv(file_type) ==
    IF file_type = <<"jpg">> THEN <<"image/jpeg">>
    ELSE IF file_type = <<"xml">> THEN <<"application/xml">>
    ELSE IF file_type = <<"txt">> THEN <<"text/plain">>
    ELSE <<"UNKNOWN">>

\* the mimetype chain of create_datafile_metadata
mimetype_of(file_type) ==
    IF file_type = <<"jpg">> THEN <<"image/jpeg">>
    ELSE IF file_type = <<"xml">> THEN <<"application/xml">>
    ELSE IF file_type = <<"txt">> THEN <<"text/plain">>
    ELSE IF file_type = <<"csv">> THEN <<"text/csv">>
    ELSE <<"UNKNOWN">>

\* the description of a row: the csv branch assigns desc first, and the
\* xml/else statement after it assigns desc again for every file type
description_of(file_type, series_name, template_csv, template_txt, template_xml) ==
    LET after_csv ==
            IF file_type = <<"csv">>
            THEN template_xml \o <<" ">> \o series_name
            ELSE << >>
    IN  IF file_type = <<"xml">>
        THEN template_xml \o <<" ">> \o series_name
        ELSE template_txt \o <<" ">> \o series_name

\* the tags of a row: 'Data' and the entities of its observation cell
file_tags_of(observations) ==
    IF notna(observations)
    THEN <<(<<"Data">>)>> \o split(format(observations), ";")
    ELSE <<(<<"Data">>)>>

datafile_metadata_row(row, template_csv, template_txt, template_xml) ==
    [filename |-> row["filename"],
     file_type |-> row["file_type"],
     description |-> description_of(row["file_type"], row["series_name"],
                                    template_csv, template_txt, template_xml),
     mimetype |-> mimetype_of(row["file_type"]),
     tags |-> file_tags_of(row["observation"])]

\* the parameter validation of create_datafile_metadata
datafile_params_invalid(inventory_df, template_csv, template_txt) ==
    \/ empty(inventory_df)
    \/ template_csv = << >>
    \/ template_txt = << >>

\* the required-field check of create_datafile_metadata
datafile_required_missing(inventory_df) ==
    \E f \in datafile_required_fields : f \notin inventory_df.columns

create_datafile_metadata(inventory_df, template_csv, template_txt, template_xml) ==
    IF datafile_params_invalid(inventory_df, template_csv, template_txt)
    THEN Return("DataFrame", EmptyDataFrame)
    ELSE IF datafile_required_missing(inventory_df)
    THEN Return("DataFrame", EmptyDataFrame)
    ELSE Return("DataFrame",
                [columns |-> {"filename", "file_type", "description", "mimetype", "tags"},
                 rows |-> [n \in 1..Len(inventory_df.rows) |->
                              datafile_metadata_row(inventory_df.rows[n], template_csv,
                                                    template_txt, template_xml)]])

---------------------------------------------------------------------------
(* The Dataverse API: clients, responses, collection listings *)

\* a pyDataverse api object
Api == [base_url |-> <<"https://demo.dataverse.org">>, api_token |-> <<"token">>]
Apis == {None, Api}

StatusCodes == {200, 299, 300, 404, 500}

\* str arguments of the API functions: '' or a value
CollectionNames == {<< >>, <<"histd">>}
InstallationUrls == {<< >>, <<"https://demo.dataverse.org">>}
DatasetPids == {<< >>, <<"doi:", "10.5072/FK2/", "1">>}
DataDirectories == {<< >>, <<"data">>}
Versions == {<<"major">>, <<"minor">>}

\* the status test with its lower bound off by one
is_success_above_200(status) == status > 200 /\ status < 300

\* the status test of every response handler: 200 <= status < 300
is_success(status) == status >= 200 /\ status < 300

\* the persistentUrl of the n-th dataset of the installation
PersistentUrl(n) == <<"https://doi.org/", "10.5072/FK2/", ToString(n)>>

\* the data of a collection listing: distinct datasets, in listing order
Listings ==
    {[n \in 1..Len(order) |-> [persistentUrl |-> PersistentUrl(order[n])]] :
        order \in {o \in SeqUpTo(1..MaxDatasets, MaxDatasets) :
                      \A a, b \in 1..Len(o) : a # b => o[a] # o[b]}}

\* url.split('https://doi.org/')[1] and 'doi:' + pid
pid_of(dataset) ==
    <<"doi:">> \o split(dataset.persistentUrl, "https://doi.org/")[2]

\* the `datasets` list built from the data of a listing
datasets_of(data) == [n \in 1..Len(data) |-> pid_of(data[n])]

\* what the server answers: a 2xx status with a body carrying `data`, or
\* another status with an error body that carries a message and no `data`
Response(status_code, data) ==
    [status_code |-> status_code,
     json |-> IF status_code \in 200..299
              THEN [status |-> "OK", data |-> data]
              ELSE [status |-> "ERROR", message |-> <<"failed">>]]

\* a request the call issued, with the response it got
Request(call, method, url, response) ==
    [call |-> call, method |-> method, url |-> url, response |-> response]

\* api.get_dataverse_contents(collection, auth=True) answering `data`
contents_request(api, collection, data) ==
    Request("get_dataverse_contents", "GET",
            api.base_url \o <<"/api/dataverses/">> \o collection \o <<"/contents">>,
            Response(200, data))

---------------------------------------------------------------------------
(* create_dataset (easyDataverse) *)

\* an initialized easyDataverse dataset
EasyDataset ==
    [title |-> None, authors |-> << >>, ds_descriptions |-> << >>,
     dataset_contacts |-> << >>, subject |-> None, keywords |-> << >>,
     topic_classifications |-> << >>, data_sources |-> None,
     distribution_date |-> None, astro_object |-> None, astro_facility |-> None]

failed_create == [status |-> FALSE, dataset_id |-> -1, dataset_pid |-> << >>]

create_dataset(ds, dataset_metadata) ==
    IF ds = None \/ dataset_metadata = EmptyDict
    THEN Return("dict", failed_create)
    ELSE LET m == dataset_metadata
         IN  Return("Dataset",
                [ds EXCEPT
                    !.title = m.title,
                    !.authors = [n \in 1..Len(m.author) |->
                                    [name |-> m.author[n].authorName,
                                     affiliation |-> m.author[n].authorAffiliation]],
                    !.ds_descriptions = [n \in 1..Len(m.description) |->
                                    [value |-> m.description[n].dsDescriptionValue]],
                    !.dataset_contacts = [n \in 1..Len(m.contact) |->
                                    [name |-> m.contact[n].datasetContactName,
                                     email |-> m.contact[n].datasetContactEmail]],
                    !.subject = m.subject,
                    !.keywords = [n \in 1..Len(m.keywords) |->
                                    [value |-> m.keywords[n].keywordValue,
                                     vocabulary |-> m.keywords[n].keywordVocabulary,
                                     vocabulary_uri |-> m.keywords[n].keywordVocabularyURI]],
                    !.topic_classifications = [n \in 1..Len(m.topic_classification) |->
                                    [value |-> m.topic_classification[n].topicClassValue]],
                    !.data_sources = IF notna(m.data_source[1])
                                     THEN m.data_source ELSE None,
                    !.distribution_date = m.creation_date,
                    !.astro_object = m.astroObject,
                    !.astro_facility = m.astroFacility])

\* metadata dictionaries a caller passes on: {} or one built from a full inventory
MetadataDicts ==
    {EmptyDict} \cup
    {dataset_metadata_of(<<"x">>, <<"x">>, <<"x">>, <<"x">>,
                         SeriesInventory(SeriesColumns, <<k>>), 1) :
        k \in RowKinds}

---------------------------------------------------------------------------
(* pydataverse_create_dataset *)

DatasetIds == {41, 42}

\* the responses of POST /api/dataverses/{collection}/datasets
CreateResponses ==
    {Response(st, [id |-> id,
                   persistentId |-> <<"doi:", "10.5072/FK2/", ToString(id)>>]) :
        st \in StatusCodes, id \in DatasetIds}

create_request(api, dataverse_url, response) ==
    Request("create", "POST",
            api.base_url \o <<"/api/dataverses/">> \o dataverse_url \o <<"/datasets">>,
            response)

\* the result of pydataverse_create_dataset once the response is in
create_result(response) ==
    LET status == response.status_code
    IN  IF ~ is_success(status)
        THEN failed_create
        ELSE [status |-> TRUE,
              dataset_id |-> response.json.data.id,
              dataset_pid |-> response.json.data.persistentId]

---------------------------------------------------------------------------
(* python_dvuploader *)

\* datafile metadata tables a caller passes on: empty, or built from an inventory
MetadataFrames ==
    {EmptyDataFrame} \cup
    {create_datafile_metadata(
        [columns |-> datafile_required_fields,
         rows |-> <<FileRow(ft, NaN, datafile_required_fields)>>],
        <<"CSV template">>, <<"TXT template">>, <<"XML template">>).value :
        ft \in {"csv", "txt"}}

dvuploader_params_invalid(api, dataverse_url, dataset_pid, data_directory, metadata_df) ==
    \/ api = None
    \/ dataverse_url = << >>
    \/ dataset_pid = << >>
    \/ data_directory = << >>
    \/ empty(metadata_df)

\* the dv.File list built from the rows of metadata_df
upload_files(data_directory, metadata_df) ==
    [n \in 1..Len(metadata_df.rows) |->
        [filepath |-> data_directory \o <<"/">> \o metadata_df.rows[n].filename,
         file_name |-> metadata_df.rows[n].filename,
         description |-> metadata_df.rows[n].description,
         mimeType |-> metadata_df.rows[n].mimetype,
         categories |-> metadata_df.rows[n].tags]]

\* the upload handed to dvuploader
upload_request(api, dataverse_url, dataset_pid, files) ==
    [call |-> "upload", method |-> "UPLOAD", url |-> dataverse_url,
     response |-> Response(200, None), api_token |-> api.api_token, persistent_id |-> dataset_pid,
     files |-> files, n_parallel_uploads |-> 2]

---------------------------------------------------------------------------
(* publish_datasets, unlock_datasets, delete_datasets *)

invalid_parameter == [status |-> FALSE, message |-> <<"Invalid parameter">>]

collection_params_invalid(api, dataverse_collection) ==
    api = None \/ dataverse_collection = << >>

\* the responses of the publish, lock-removal and destroy requests
PlainResponses == {Response(st, None) : st \in StatusCodes}

publish_request(api, dataset, version, response) ==
    Request("publish", "POST",
            api.base_url \o <<"/api/datasets/:persistentId/actions/:publish?persistentId=">>
            \o dataset \o <<"&type=">> \o version, response)

\* the entry of publish_datasets with the status left out of both messages
publish_entry_without_status(status, dataset) ==
    IF ~ is_success(status)
    THEN [status |-> FALSE,
          message |-> <<"publish_dataset::Error - failed to publish dataset: ">>
                      \o dataset]
    ELSE [status |-> TRUE,
          message |-> <<"publish_dataset::Success - published dataset: ">>
                      \o dataset]

\* the entry publish_datasets stores for a dataset
publish_entry(status, dataset) ==
    IF ~ is_success(status)
    THEN [status |-> FALSE,
          message |-> <<"publish_dataset::Error - failed to publish dataset: ",
                        ToString(status), ":">> \o dataset]
    ELSE [status |-> TRUE,
          message |-> <<"publish_dataset::Success - published dataset: ",
                        ToString(status), ":">> \o dataset]

locks_url(api, dataset) ==
    api.base_url \o <<"/api/datasets/:persistentId/locks?persistentId=">> \o dataset

\* the responses of GET locks for a dataset: a lock list, or an error body
LockResponses(dataset) ==
    {Response(st, locks) :
        st \in StatusCodes,
        locks \in {<< >>, <<[lockType |-> "finalizePublication", dataset |-> dataset]>>}}

locks_get_request(api, dataset, response) ==
    Request("locks", "GET", locks_url(api, dataset), response)

locks_delete_request(api, pid, response) ==
    Request("locks", "DELETE", locks_url(api, pid), response)

\* api.destroy_dataset(dataset, is_pid=True, auth=True)
destroy_request(api, dataset, response) ==
    Request("destroy_dataset", "DELETE",
            api.base_url \o <<"/api/datasets/:persistentId/destroy/?persistentId=">>
            \o dataset, response)

\* the entry unlock_datasets stores for a pid
unlock_entry(status, pid) ==
    IF ~ is_success(status)
    THEN [status |-> FALSE,
          message |-> <<"publish_dataset::Error - failed to unlock dataset: ",
                        ToString(status), ":">> \o pid]
    ELSE [status |-> TRUE,
          message |-> <<"publish_dataset::Success - unlocked dataset: ",
                        ToString(status), ":">> \o pid]

\* errors = {key: entry}: the dictionary is replaced, not updated
put_replacing(dict, key, entry) == [k \in {key} |-> entry]

\* errors[key] = entry
put(dict, key, entry) ==
    [k \in DOMAIN dict \cup {key} |-> IF k = key THEN entry ELSE dict[k]]

---------------------------------------------------------------------------
(* The calls *)

NoArgs == [none |-> TRUE]

Idle ==
    /\ pc = "idle" /\ fn = "none" /\ args = NoArgs /\ ret = NoRet
    /\ datasets = << >> /\ i = 0 /\ locked_pids = << >>
    /\ errors = EmptyDict /\ requests = << >>

Init == Idle

Call_create_dataset_metadata ==
    /\ pc = "idle"
    /\ \E author \in ArgStrings, affiliation \in ArgStrings, contact \in ArgStrings,
          email \in ArgStrings, series_name \in SeriesNames,
          series_inventory \in SeriesInventories :
        /\ args' = [author |-> author, affiliation |-> affiliation,
                    contact |-> contact, email |-> email,
                    series_name |-> series_name,
                    series_inventory |-> series_inventory]
        /\ ret' = create_dataset_metadata(author, affiliation, contact, email,
                                          series_name, series_inventory)
    /\ fn' = "create_dataset_metadata"
    /\ pc' = "done"
    /\ UNCHANGED <<datasets, i, locked_pids, errors, requests>>

Call_create_datafile_metadata ==
    /\ pc = "idle"
    /\ \E inventory_df \in FileInventories, template_csv \in Templates("CSV template"),
          template_txt \in Templates("TXT template"),
          template_xml \in Templates("XML template") :
        /\ args' = [inventory_df |-> inventory_df, template_csv |-> template_csv,
                    template_txt |-> template_txt, template_xml |-> template_xml]
        /\ ret' = create_datafile_metadata(inventory_df, template_csv, template_txt,
                                           template_xml)
    /\ fn' = "create_datafile_metadata"
    /\ pc' = "done"
    /\ UNCHANGED <<datasets, i, locked_pids, errors, requests>>

Call_create_dataset ==
    /\ pc = "idle"
    /\ \E ds \in {None, EasyDataset}, dataset_metadata \in MetadataDicts :
        /\ args' = [ds |-> ds, dataset_metadata |-> dataset_metadata]
        /\ ret' = create_dataset(ds, dataset_metadata)
    /\ fn' = "create_dataset"
    /\ pc' = "done"
    /\ UNCHANGED <<datasets, i, locked_pids, errors, requests>>

\* validate_json is the verdict of pyDataverse's ds.validate_json(); response
\* is the server's answer to the POST, should the call get that far
Call_pydataverse_create_dataset ==
    /\ pc = "idle"
    /\ \E api \in Apis, dataverse_url \in CollectionNames,
          dataset_metadata \in MetadataDicts, validate_json \in BOOLEAN,
          response \in CreateResponses :
        /\ args' = [api |-> api, dataverse_url |-> dataverse_url,
                    dataset_metadata |-> dataset_metadata,
                    validate_json |-> validate_json]
        /\ IF api = None \/ dataset_metadata = EmptyDict
           THEN /\ ret' = Return("dict", failed_create)
                /\ requests' = requests
           ELSE IF validate_json = FALSE
           THEN /\ ret' = Return("dict", failed_create)
                /\ requests' = requests
           ELSE /\ requests' = Append(requests,
                                      create_request(api, dataverse_url, response))
                /\ ret' = Return("dict", create_result(response))
    /\ fn' = "pydataverse_create_dataset"
    /\ pc' = "done"
    /\ UNCHANGED <<datasets, i, locked_pids, errors>>

Call_python_dvuploader ==
    /\ pc = "idle"
    /\ \E api \in Apis, dataverse_url \in InstallationUrls, dataset_pid \in DatasetPids,
          data_directory \in DataDirectories, metadata_df \in MetadataFrames :
        /\ args' = [api |-> api, dataverse_url |-> dataverse_url,
                    dataset_pid |-> dataset_pid, data_directory |-> data_directory,
                    metadata_df |-> metadata_df]
        /\ IF dvuploader_params_invalid(api, dataverse_url, dataset_pid,
                                        data_directory, metadata_df)
           THEN /\ ret' = Return("bool", FALSE)
                /\ requests' = requests
           ELSE /\ requests' =
                      Append(requests,
                             upload_request(api, dataverse_url, dataset_pid,
                                            upload_files(data_directory, metadata_df)))
                /\ ret' = Return("NoneType", None)
    /\ fn' = "python_dvuploader"
    /\ pc' = "done"
    /\ UNCHANGED <<datasets, i, locked_pids, errors>>

\* publish_datasets up to its loop: validation, listing, the datasets list
Call_publish_datasets ==
    /\ pc = "idle"
    /\ \E api \in Apis, dataverse_collection \in CollectionNames,
          version \in Versions, data \in Listings :
        /\ args' = [api |-> api, dataverse_collection |-> dataverse_collection,
                    version |-> version]
        /\ IF collection_params_invalid(api, dataverse_collection)
           THEN /\ ret' = Return("dict", invalid_parameter)
                /\ pc' = "done"
                /\ UNCHANGED <<datasets, requests>>
           ELSE /\ requests' = Append(requests,
                                      contents_request(api, dataverse_collection, data))
                /\ datasets' = datasets_of(data)
                /\ pc' = "publish"
                /\ ret' = ret
    /\ fn' = "publish_datasets"
    /\ UNCHANGED <<i, locked_pids, errors>>

\* one iteration of the publish loop
publish_step ==
    /\ pc = "publish"
    /\ i < Len(datasets)
    /\ \E response \in PlainResponses :
        LET dataset == datasets[i + 1]
            status == response.status_code
        IN  /\ requests' = Append(requests,
                                  publish_request(args.api, dataset, args.version,
                                                  response))
            /\ errors' = put(errors, dataset, publish_entry(status, dataset))
    /\ i' = i + 1
    /\ UNCHANGED <<pc, fn, args, ret, datasets, locked_pids>>

\* the publish loop with a break after a failed request
publish_return_after_failure ==
    /\ pc = "publish"
    /\ i = Len(datasets) \/ (i > 0 /\ ~ errors[datasets[i]].status)
    /\ ret' = Return("dict", errors)
    /\ pc' = "done"
    /\ UNCHANGED <<fn, args, datasets, i, locked_pids, errors, requests>>

publish_return ==
    /\ pc = "publish"
    /\ i = Len(datasets)
    /\ ret' = Return("dict", errors)
    /\ pc' = "done"
    /\ UNCHANGED <<fn, args, datasets, i, locked_pids, errors, requests>>

\* unlock_datasets up to its first loop
Call_unlock_datasets ==
    /\ pc = "idle"
    /\ \E api \in Apis, dataverse_collection \in CollectionNames, data \in Listings :
        /\ args' = [api |-> api, dataverse_collection |-> dataverse_collection]
        /\ IF collection_params_invalid(api, dataverse_collection)
           THEN /\ ret' = Return("dict", invalid_parameter)
                /\ pc' = "done"
                /\ UNCHANGED <<datasets, requests>>
           ELSE /\ requests' = Append(requests,
                                      contents_request(api, dataverse_collection, data))
                /\ datasets' = datasets_of(data)
                /\ pc' = "inspect"
                /\ ret' = ret
    /\ fn' = "unlock_datasets"
    /\ UNCHANGED <<i, locked_pids, errors>>

\* one iteration of the lock-inspection loop; response.json()['data'] of an
\* error body raises KeyError and ends the call
inspect_step ==
    /\ pc = "inspect"
    /\ i < Len(datasets)
    /\ \E response \in LockResponses(datasets[i + 1]) :
        /\ requests' = Append(requests,
                              locks_get_request(args.api, datasets[i + 1], response))
        /\ IF "data" \notin DOMAIN response.json
           THEN /\ ret' = Raise("KeyError", "data")
                /\ pc' = "done"
                /\ UNCHANGED locked_pids
           ELSE /\ locked_pids' =
                      IF response.json.data # << >>
                      THEN Append(locked_pids, response.json.data[1].dataset)
                      ELSE locked_pids
                /\ UNCHANGED <<pc, ret>>
    /\ i' = i + 1
    /\ UNCHANGED <<fn, args, datasets, errors>>

\* the inspection loop is over: errors = {} and the unlock loop starts
inspect_exit ==
    /\ pc = "inspect"
    /\ i = Len(datasets)
    /\ pc' = "unlock"
    /\ i' = 0
    /\ errors' = EmptyDict
    /\ UNCHANGED <<fn, args, ret, datasets, locked_pids, requests>>

\* one iteration of the unlock loop
unlock_step ==
    /\ pc = "unlock"
    /\ i < Len(locked_pids)
    /\ \E response \in PlainResponses :
        LET pid == locked_pids[i + 1]
            status == response.status_code
        IN  /\ requests' = Append(requests,
                                  locks_delete_request(args.api, pid, response))
            /\ errors' = put(errors, pid, unlock_entry(status, pid))
    /\ i' = i + 1
    /\ UNCHANGED <<pc, fn, args, ret, datasets, locked_pids>>

unlock_return ==
    /\ pc = "unlock"
    /\ i = Len(locked_pids)
    /\ ret' = Return("dict", errors)
    /\ pc' = "done"
    /\ UNCHANGED <<fn, args, datasets, i, locked_pids, errors, requests>>

\* delete_datasets up to its destroy loop; it validates nothing, so a missing
\* api fails at api.get_dataverse_contents
Call_delete_datasets ==
    /\ pc = "idle"
    /\ \E api \in Apis, dataverse_url \in CollectionNames, data \in Listings :
        /\ args' = [api |-> api, dataverse_url |-> dataverse_url]
        /\ IF api = None
           THEN /\ ret' = Raise("AttributeError", "get_dataverse_contents")
                /\ pc' = "done"
                /\ UNCHANGED <<datasets, requests>>
           ELSE /\ requests' = Append(requests,
                                      contents_request(api, dataverse_url, data))
                /\ datasets' = datasets_of(data)
                /\ pc' = "destroy"
                /\ ret' = ret
    /\ fn' = "delete_datasets"
    /\ UNCHANGED <<i, locked_pids, errors>>

\* one iteration of the destroy loop: the response is printed, not kept
destroy_step ==
    /\ pc = "destroy"
    /\ i < Len(datasets)
    /\ \E response \in PlainResponses :
        requests' = Append(requests,
                           destroy_request(args.api, datasets[i + 1], response))
    /\ i' = i + 1
    /\ UNCHANGED <<pc, fn, args, ret, datasets, locked_pids, errors>>

delete_return ==
    /\ pc = "destroy"
    /\ i = Len(datasets)
    /\ ret' = Return("bool", TRUE)
    /\ pc' = "done"
    /\ UNCHANGED <<fn, args, datasets, i, locked_pids, errors, requests>>

\* the caller takes the outcome; nothing of the call is kept
Finish ==
    /\ pc = "done"
    /\ pc' = "idle" /\ fn' = "none" /\ args' = NoArgs /\ ret' = NoRet
    /\ datasets' = << >> /\ i' = 0 /\ locked_pids' = << >>
    /\ errors' = EmptyDict /\ requests' = << >>

Next ==
    \/ Call_create_dataset_metadata
    \/ Call_create_datafile_metadata
    \/ Call_create_dataset
    \/ Call_pydataverse_create_dataset
    \/ Call_python_dvuploader
    \/ Call_publish_datasets
    \/ publish_step
    \/ publish_return
    \/ Call_unlock_datasets
    \/ inspect_step
    \/ inspect_exit
    \/ unlock_step
    \/ unlock_return
    \/ Call_delete_datasets
    \/ destroy_step
    \/ delete_return
    \/ Finish

Spec == Init /\ [][Next]_vars

---------------------------------------------------------------------------
(* Properties *)

Done(f) == pc = "done" /\ fn = f

\* C1: create_dataset_metadata and create_datafile_metadata, called with
\* otherwise valid parameters and a non-empty inventory that lacks one of the
\* function's required columns, return the empty result ({} respectively an
\* empty table) and build no record.
C1_MissingRequiredColumnYieldsEmpty ==
    /\ ( /\ Done("create_dataset_metadata")
         /\ args.author # << >> /\ args.affiliation # << >>
         /\ args.contact # << >> /\ args.email # << >>
         /\ args.series_name # << >>
         /\ Len(args.series_inventory.rows) > 0
         /\ \E c \in {"series_name", "volume_title", "contributor", "subjects",
                      "card_date_year", "url"} :
                c \notin args.series_inventory.columns )
       => ret = Return("dict", EmptyDict)
    /\ ( /\ Done("create_datafile_metadata")
         /\ args.template_csv # << >> /\ args.template_txt # << >>
         /\ Len(args.inventory_df.rows) > 0
         /\ \E c \in {"filename", "file_type", "series_name", "observation"} :
                c \notin args.inventory_df.columns )
       => ret = Return("DataFrame", EmptyDataFrame)

\* a valid call of create_dataset_metadata on a two-row inventory that lacks
\* only the url column has returned {}
C1_Witness ==
    /\ Done("create_dataset_metadata")
    /\ args.author # << >> /\ args.affiliation # << >>
    /\ args.contact # << >> /\ args.email # << >>
    /\ args.series_name # << >>
    /\ Len(args.series_inventory.rows) = 2
    /\ args.series_inventory.columns = SeriesColumns \ {"url"}
    /\ ret = Return("dict", EmptyDict)

\* C2: errors are reported, not thrown: every function that validates its
\* parameters, called with a validated parameter empty or missing, returns
\* before any HTTP request or upload is issued, and what it returns is an
\* empty structure or a status dictionary whose 'status' is false.
C2_InvalidParameterYieldsSentinel ==
    LET invalid ==
            CASE fn = "create_dataset_metadata" ->
                    \/ args.author = << >> \/ args.affiliation = << >>
                    \/ args.contact = << >> \/ args.email = << >>
                    \/ args.series_name = << >>
                    \/ Len(args.series_inventory.rows) = 0
              [] fn = "create_dataset" ->
                    args.ds = None \/ args.dataset_metadata = EmptyDict
              [] fn = "pydataverse_create_dataset" ->
                    args.api = None \/ args.dataset_metadata = EmptyDict
              [] fn = "create_datafile_metadata" ->
                    \/ Len(args.inventory_df.rows) = 0
                    \/ args.template_csv = << >> \/ args.template_txt = << >>
              [] fn = "python_dvuploader" ->
                    \/ args.api = None \/ args.dataverse_url = << >>
                    \/ args.dataset_pid = << >> \/ args.data_directory = << >>
                    \/ Len(args.metadata_df.rows) = 0
              [] fn \in {"publish_datasets", "unlock_datasets"} ->
                    args.api = None \/ args.dataverse_collection = << >>
              [] OTHER -> FALSE
        empty_structure ==
            \/ ret.type = "dict" /\ ret.value = EmptyDict
            \/ ret.type = "DataFrame" /\ ret.value = EmptyDataFrame
        failed_status ==
            /\ ret.type = "dict"
            /\ "status" \in DOMAIN ret.value
            /\ ret.value.status = FALSE
    IN  (pc = "done" /\ invalid)
        => /\ requests = << >>
           /\ ret.kind = "return"
           /\ empty_structure \/ failed_status

\* C3: pydataverse_create_dataset, called with valid parameters and metadata
\* that passes validation, issues the creation POST and returns status true
\* exactly when the HTTP status of the response is in [200,300); a true result
\* carries the 'id' and 'persistentId' of the response's data, a false result
\* carries dataset_id -1 and dataset_pid ''.
C3_CreateResultFollowsStatus ==
    ( /\ Done("pydataverse_create_dataset")
      /\ args.api # None /\ args.dataset_metadata # EmptyDict
      /\ args.validate_json )
    => /\ Len(requests) = 1
       /\ requests[1].call = "create"
       /\ ret.kind = "return" /\ ret.type = "dict"
       /\ LET response == requests[1].response
              result == ret.value
          IN  /\ result.status = (response.status_code \in 200..299)
              /\ result.status
                 => /\ result.dataset_id = response.json.data.id
                    /\ result.dataset_pid = response.json.data.persistentId
              /\ ~ result.status
                 => /\ result.dataset_id = -1
                    /\ result.dataset_pid = << >>

\* a creation POST answered 200 has given status true and the response's ids
C3_Witness ==
    /\ Done("pydataverse_create_dataset")
    /\ Len(requests) = 1
    /\ requests[1].response.status_code = 200
    /\ ret.value.status = TRUE
    /\ ret.value.dataset_id = 42
    /\ ret.value.dataset_pid = <<"doi:", "10.5072/FK2/", "42">>

\* the data of the collection listing the call received
Listed == requests[1].response.json.data
\* the identifier of the n-th listed dataset
ListedPid(n) == <<"doi:">> \o Tail(Listed[n].persistentUrl)
\* the persistentId parameter of a request
UrlPid(request) == SubSeq(request.url, 3, 5)
\* publish_datasets, unlock_datasets or delete_datasets has returned from a
\* call with valid parameters
Returned(f) ==
    /\ Done(f)
    /\ ret.kind = "return"
    /\ Len(requests) >= 1
\* the requests the call issued after the listing, from position `from` on
RequestsFrom(from) == SubSeq(requests, from, Len(requests))
\* the lock-inspection requests of unlock_datasets
Inspections == SubSeq(requests, 2, 1 + Len(Listed))
\* the lock-removal requests of unlock_datasets
Removals == RequestsFrom(2 + Len(Listed))
\* the listed datasets whose lock inspection returned a non-empty lock list
LockedListed ==
    {n \in 1..Len(Listed) : Inspections[n].response.json.data # << >>}
\* a result dictionary carries an HTTP status code
CarriesCode(result, code) ==
    \/ "message" \in DOMAIN result
       /\ \E n \in 1..Len(result.message) : result.message[n] = ToString(code)
    \/ "dataset_id" \in DOMAIN result /\ result.dataset_id = code
    \/ "dataset_pid" \in DOMAIN result
       /\ \E n \in 1..Len(result.dataset_pid) : result.dataset_pid[n] = ToString(code)
\* every request of reqs answered outside [200,300) has a failure entry in the
\* returned dictionary that carries the status code
FailuresCarryCode(reqs) ==
    \A n \in 1..Len(reqs) :
        reqs[n].response.status_code \notin 200..299
        => /\ UrlPid(reqs[n]) \in DOMAIN ret.value
           /\ ret.value[UrlPid(reqs[n])].status = FALSE
           /\ CarriesCode(ret.value[UrlPid(reqs[n])], reqs[n].response.status_code)

OwnOutcome(reqs) ==
    \A n \in 1..Len(reqs) :
        /\ UrlPid(reqs[n]) \in DOMAIN ret.value
        /\ ret.value[UrlPid(reqs[n])].status
           = (reqs[n].response.status_code \in 200..299)

ValidDatafileCall ==
    /\ Done("create_datafile_metadata")
    /\ args.template_csv # << >> /\ args.template_txt # << >>
    /\ Len(args.inventory_df.rows) > 0
    /\ {"filename", "file_type", "series_name", "observation"}
       \subseteq args.inventory_df.columns

\* C6: create_datafile_metadata with valid inputs gives the i-th output row
\* a mimetype determined by the i-th inventory row's file_type alone: csv gives
\* text/csv, txt text/plain, xml application/xml, jpg image/jpeg and every
\* other file_type UNKNOWN.
C6_MimetypeFollowsFileType ==
    ValidDatafileCall
    => /\ ret.kind = "return" /\ ret.type = "DataFrame"
       /\ Len(ret.value.rows) = Len(args.inventory_df.rows)
       /\ \A n \in 1..Len(args.inventory_df.rows) :
            LET file_type == args.inventory_df.rows[n]["file_type"]
            IN  ret.value.rows[n].mimetype =
                    CASE file_type = <<"csv">> -> <<"text/csv">>
                      [] file_type = <<"txt">> -> <<"text/plain">>
                      [] file_type = <<"xml">> -> <<"application/xml">>
                      [] file_type = <<"jpg">> -> <<"image/jpeg">>
                      [] OTHER -> <<"UNKNOWN">>

\* a csv file followed by a pdf file got text/csv and UNKNOWN, in that order
C6_Witness ==
    /\ ValidDatafileCall
    /\ Len(args.inventory_df.rows) = 2
    /\ args.inventory_df.rows[1]["file_type"] = <<"csv">>
    /\ args.inventory_df.rows[2]["file_type"] = <<"pdf">>
    /\ ret.value.rows[1].mimetype = <<"text/csv">>
    /\ ret.value.rows[2].mimetype = <<"UNKNOWN">>

\* C7: create_dataset_metadata is a function of the first row of the
\* inventory (author, affiliation, contact and email fixed): a call on any
\* inventory with the same first row, with any non-empty series_name, has the
\* outcome of this call, whatever the remaining rows contain.
C7_FunctionOfFirstRow ==
    ( /\ Done("create_dataset_metadata")
      /\ args.series_name # << >>
      /\ Len(args.series_inventory.rows) > 0 )
    => \A kinds \in SeqUpTo(RowKinds, MaxRows), series_name \in SeriesNames :
          LET other == SeriesInventory(args.series_inventory.columns, kinds)
          IN  ( /\ series_name # << >>
                /\ Len(other.rows) > 0
                /\ other.rows[1] = args.series_inventory.rows[1] )
              => create_dataset_metadata(args.author, args.affiliation,
                                         args.contact, args.email,
                                         series_name, other) = ret

\* a record was built from a two-row inventory whose rows differ
C7_Witness ==
    /\ Done("create_dataset_metadata")
    /\ args.series_name = <<"B">>
    /\ Len(args.series_inventory.rows) = 2
    /\ args.series_inventory.rows[1] # args.series_inventory.rows[2]
    /\ ret.kind = "return" /\ ret.value # EmptyDict
    /\ ret.value.title = args.series_inventory.rows[1]["series_name"]

\* the requests reqs address the pids, one request each, in that order
OneRequestEach(reqs, pids) ==
    /\ Len(reqs) = Len(pids)
    /\ \A n \in 1..Len(reqs) : UrlPid(reqs[n]) = pids[n]
\* every failed request of reqs is recorded for its item in the returned result
FailuresRecorded(reqs) ==
    \A n \in 1..Len(reqs) :
        reqs[n].response.status_code \notin 200..299
        => /\ ret.type = "dict"
           /\ UrlPid(reqs[n]) \in DOMAIN ret.value
           /\ ret.value[UrlPid(reqs[n])].status = FALSE
\* the identifiers of the listed datasets, in listing order
ListedPids == [n \in 1..Len(Listed) |-> ListedPid(n)]
\* the identifiers of the listed datasets found locked, in listing order
RECURSIVE LockedPidsFrom(_)
LockedPidsFrom(n) ==
    IF n > Len(Listed) THEN << >>
    ELSE (IF n \in LockedListed THEN <<ListedPid(n)>> ELSE << >>)
         \o LockedPidsFrom(n + 1)

C9_DescriptionUsesTemplateOfFileType ==
    ValidDatafileCall
    => \A n \in 1..Len(args.inventory_df.rows) :
          LET row == args.inventory_df.rows[n]
              template ==
                  CASE row["file_type"] = <<"csv">> -> args.template_csv
                    [] row["file_type"] = <<"txt">> -> args.template_txt
                    [] row["file_type"] = <<"xml">> -> args.template_xml
          IN  row["file_type"] \in {<<"csv">>, <<"txt">>, <<"xml">>}
              => ret.value.rows[n].description
                 = template \o <<" ">> \o row["series_name"]

\* C10: create_dataset_metadata called with non-empty author, affiliation,
\* contact, email and series_name and a non-empty inventory that has the six
\* required columns returns a complete metadata record and never ends in an
\* error, whichever other columns the inventory has or lacks.
C10_RequiredColumnsSuffice ==
    ( /\ Done("create_dataset_metadata")
      /\ args.author # << >> /\ args.affiliation # << >>
      /\ args.contact # << >> /\ args.email # << >>
      /\ args.series_name # << >>
      /\ Len(args.series_inventory.rows) > 0
      /\ {"series_name", "volume_title", "contributor", "subjects",
          "card_date_year", "url"} \subseteq args.series_inventory.columns )
    => /\ ret.kind = "return"
       /\ ret.type = "dict"
       /\ DOMAIN ret.value =
            {"title", "author", "description", "contact", "subject", "license",
             "keywords", "topic_classification", "data_source", "creation_date",
             "astroObject", "astroFacility", "astroType"}

\* a lock-inspection request of unlock_datasets
IsInspection(request) == request.call = "locks" /\ request.method = "GET"
\* a lock-removal request of unlock_datasets
IsRemoval(request) == request.call = "locks" /\ request.method = "DELETE"
\* the inspection found locks: its response carries a non-empty lock list
FoundLocks(request) ==
    /\ "data" \in DOMAIN request.response.json
    /\ request.response.json.data # << >>
\* the positions in the request log of the inspections and of the removals
InspectionAt == {n \in 1..Len(requests) : IsInspection(requests[n])}
RemovalAt == {n \in 1..Len(requests) : IsRemoval(requests[n])}
\* the removals issued for a pid
RemovalsOf(pid) == {n \in RemovalAt : UrlPid(requests[n]) = pid}
\* the inspection of a pid found locks
InspectedLocked(pid) ==
    \E n \in InspectionAt :
        UrlPid(requests[n]) = pid /\ FoundLocks(requests[n])

\* C11: in unlock_datasets with valid parameters every lock-inspection GET
\* (one per listed dataset, in listing order) is issued before the first
\* lock-removal DELETE; a DELETE is issued only for a dataset whose inspection
\* returned a non-empty lock list, exactly one DELETE is issued for each such
\* dataset, and a dataset whose inspection returned no locks receives none.
C11_InspectAllThenUnlockLocked ==
    ( /\ Done("unlock_datasets")
      /\ args.api # None /\ args.dataverse_collection # << >> )
    => /\ OneRequestEach(SelectSeq(requests, IsInspection), ListedPids)
       /\ \A g \in InspectionAt, d \in RemovalAt : g < d
       /\ \A d \in RemovalAt : InspectedLocked(UrlPid(requests[d]))
       /\ \A n \in 1..Len(Listed) :
            Cardinality(RemovalsOf(ListedPid(n)))
            = IF InspectedLocked(ListedPid(n)) THEN 1 ELSE 0

====
